---- MODULE Spec2Model ----
(***************************************************************************)
(* Model of wmr's npm middleware: npmMiddleware, handleAsset and           *)
(* bundleNpmModule.                                                        *)
(*                                                                         *)
(* Strings are sequences of character codes (ASCII).  Every request is a   *)
(* process whose program counter names the await it is suspended at; one   *)
(* action is the code that runs between two awaits.                        *)
(***************************************************************************)
EXTENDS Integers, Sequences, FiniteSets, TLC

\* ------------------------------------------------------------------ bounds
\* Number of requests the server receives in one behaviour.
NumReq == 2
\* Number of times the server process is restarted in one behaviour.
MaxRestarts == 1

\* ------------------------------------------------------------ string values
None == <<>>

S_p == <<112>>
S_slash == <<47>>
S_x == <<120>>
S_x1 == <<120, 49>>
S_acss == <<97, 46, 99, 115, 115>>
S_1 == <<49>>
S_11 == <<49, 49>>
S_gz == <<45, 103, 122>>
S_br == <<45, 98, 114>>
S_undefined == <<117, 110, 100, 101, 102, 105, 110, 101, 100>>
S_css == <<99, 115, 115>>
S_txt == <<116, 120, 116>>
S_json == <<106, 115, 111, 110>>
S_wasm == <<119, 97, 115, 109>>
S_less == <<108, 101, 115, 115>>
S_scss == <<115, 99, 115, 115>>
S_sass == <<115, 97, 115, 115>>
S_dot == <<46>>

\* ------------------------------------------------------------------- paths
\* "/app"
P_app == <<47, 97, 112, 112>>
\* "/app/"
P_appSlash == <<47, 97, 112, 112, 47>>
\* "/srv/w"
P_srv == <<47, 115, 114, 118, 47, 119>>
\* "./node_modules/p/a.png"
Id_nodeModules == <<46, 47, 110, 111, 100, 101, 95, 109, 111, 100, 117, 108, 101, 115, 47, 112, 47, 97, 46, 112, 110, 103>>
\* "../node_modules/p/a.png"
Id_parentNodeModules == <<46, 46, 47, 110, 111, 100, 101, 95, 109, 111, 100, 117, 108, 101, 115, 47, 112, 47, 97, 46, 112, 110, 103>>
\* "../app2/x"
Id_sibling == <<46, 46, 47, 97, 112, 112, 50, 47, 120>>
\* "x"
Id_plain == <<120>>
\* "../app/x"
Id_roundTrip == <<46, 46, 47, 97, 112, 112, 47, 120>>
\* "../../etc"
Id_etc == <<46, 46, 47, 46, 46, 47, 101, 116, 99>>
\* "./node_modules"
S_dotSlashNodeModules == <<46, 47, 110, 111, 100, 101, 95, 109, 111, 100, 117, 108, 101, 115>>
\* "../node_modules"
S_dotDotSlashNodeModules == <<46, 46, 47, 110, 111, 100, 101, 95, 109, 111, 100, 117, 108, 101, 115>>
\* "/@npm"
S_atNpm == <<47, 64, 110, 112, 109>>
\* ".."
S_dotdot == <<46, 46>>
\* "fs"
Id_fs == <<102, 115>>
\* "path"
Id_path == <<112, 97, 116, 104>>

\* Does string s end with string t?
EndsWith(s, t) ==
  /\ Len(s) >= Len(t)
  /\ SubSeq(s, Len(s) - Len(t) + 1, Len(s)) = t

\* ------------------------------------------------------------------ base64
\* The character of the base64 alphabet for a 6-bit value.
B64Char(i) ==
  IF i < 26 THEN 65 + i
  ELSE IF i < 52 THEN 97 + (i - 26)
  ELSE IF i < 62 THEN 48 + (i - 52)
  ELSE IF i = 62 THEN 43 ELSE 47

B64Pad == 61

\* Buffer.from(s).toString('base64'): three bytes become four characters,
\* a last group of one or two bytes is padded with '='.
RECURSIVE Base64(_)
Base64(b) ==
  IF Len(b) = 0 THEN <<>>
  ELSE IF Len(b) = 1 THEN
    << B64Char(b[1] \div 4), B64Char((b[1] % 4) * 16), B64Pad, B64Pad >>
  ELSE IF Len(b) = 2 THEN
    << B64Char(b[1] \div 4),
       B64Char((b[1] % 4) * 16 + (b[2] \div 16)),
       B64Char((b[2] % 16) * 4),
       B64Pad >>
  ELSE
    << B64Char(b[1] \div 4),
       B64Char((b[1] % 4) * 16 + (b[2] \div 16)),
       B64Char((b[2] % 16) * 4 + (b[3] \div 64)),
       B64Char(b[3] % 64) >> \o Base64(SubSeq(b, 4, Len(b)))

\* const etag = Buffer.from(`${meta.specifier}${meta.version}`).toString('base64')
Etag(specifier, version) == Base64(specifier \o version)

\* String(h).replace(/-(gz|br)$/g, ''): one trailing -gz or -br is removed;
\* an absent header is the string "undefined".
StripEncoding(h) ==
  LET s == IF h = None THEN S_undefined ELSE h
  IN IF EndsWith(s, S_gz) \/ EndsWith(s, S_br)
     THEN SubSeq(s, 1, Len(s) - 3)
     ELSE s

\* /\.((css|s[ac]ss|less)|wasm|txt|json)$/.test(meta.path)
IsAssetPath(path) ==
  \E ext \in {S_css, S_scss, S_sass, S_less, S_wasm, S_txt, S_json} :
    EndsWith(path, S_dot \o ext)

\* ---------------------------------------------------------------- requests
Reqs == 1..NumReq

\* A request URL, as `new URL(req.url)` splits it: the pathname's package
\* name, optional @version and subpath, and the presence of ?module.
\* An empty name stands for a pathname outside the specifier grammar.
Urls ==
  { [name |-> S_p, version |-> S_11, path |-> S_x,    module |-> FALSE],
    [name |-> S_p, version |-> None, path |-> S_x,    module |-> FALSE],
    [name |-> S_p, version |-> S_1,  path |-> S_x1,   module |-> FALSE],
    [name |-> S_p, version |-> S_1,  path |-> S_acss, module |-> FALSE],
    [name |-> S_p, version |-> S_1,  path |-> S_acss, module |-> TRUE],
    [name |-> None, version |-> None, path |-> None,  module |-> FALSE] }

\* Values of the if-none-match request header (None: header absent).
IfNoneMatchValues ==
  LET e1 == Etag(S_p \o S_slash \o S_x, S_11)
      e2 == Etag(S_p \o S_slash \o S_acss, S_1)
  IN { None, e1, e1 \o S_gz, e1 \o S_br, e2 }

\* normalizeSpecifier(mod): { module, version, path, specifier }, where
\* specifier is the package name and subpath without the version.
WellFormed(u) == u.name # None

NormalizeSpecifier(u) ==
  [ module    |-> u.name,
    version   |-> u.version,
    path      |-> u.path,
    specifier |-> IF u.path = None THEN u.name ELSE u.name \o S_slash \o u.path ]

\* resolvePackageVersion(meta): the registry's immutable answer; an unpinned
\* name resolves to the latest published version.
LatestVersion(name) == S_11

ResolvedVersion(m) ==
  IF m.version = None THEN LatestVersion(m.module) ELSE m.version

\* getMimeType(meta.path)
MimeType(path) ==
  IF EndsWith(path, S_dot \o S_css) THEN "text/css"
  ELSE IF EndsWith(path, S_dot \o S_json) THEN "application/json"
  ELSE IF EndsWith(path, S_dot \o S_wasm) THEN "application/wasm"
  ELSE "null"

\* The bytes of a response body.
\* output[0].code of a build of the module at its resolved version.
BundleCode(m) == [kind |-> "bundle", specifier |-> m.specifier, version |-> m.version]

\* loadPackageFile(meta): the published file's raw bytes.
PackageFile(m) == [kind |-> "file", specifier |-> m.specifier, version |-> m.version]

S_npmPrefix == <<47, 64, 110, 112, 109, 47>>
S_assetQuery == <<63, 97, 115, 115, 101, 116>>

ProxyModule_NoQuery(m) ==
  [kind |-> "proxy", imports |-> <<"/_wmr.js">>,
   calls |-> << [fn |-> "style", arg |-> S_npmPrefix \o m.specifier] >>]

\* `import{style}from '/_wmr.js';\nstyle(${specifier});` with
\* specifier = JSON.stringify('/@npm/' + meta.specifier + '?asset')
ProxyModule(m) ==
  [kind |-> "proxy", imports |-> <<"/_wmr.js">>,
   calls |-> << [fn |-> "style", arg |-> S_npmPrefix \o m.specifier \o S_assetQuery] >>]

NoBody == [kind |-> "empty"]

NoMeta == [module |-> None, version |-> None, path |-> None, specifier |-> None]
NoUrl == [name |-> None, version |-> None, path |-> None, module |-> FALSE]
NoRes == [status |-> 0, etag |-> None, ctype |-> "unset", body |-> NoBody, ended |-> FALSE]

VARIABLES
  source,        \* options.source
  optimize,      \* options.optimize: "true", "false" or "undefined"
  npmCache,      \* the module-level warm cache handed to rollup
  memCache,      \* memory tier of the bundle cache: key -> code
  diskCache,     \* disk tier of the bundle cache: key -> code
  compressQueue, \* keys waiting for background compression
  compressed,    \* keys whose entry has gained compressed variants
  restarts,      \* process restarts so far
  pc,            \* per request: the await the handler is suspended at
  url,           \* per request: req.url
  ifNoneMatch,   \* per request: req.headers['if-none-match']
  meta,          \* per request: the normalized specifier
  etag,          \* per request: the computed key
  res,           \* per request: the response as written so far
  nextErr,       \* per request: the argument next() was called with
  thrown,        \* per request: the error the handler's promise rejected with
  warm,          \* per request: the cache value its rollup call was given
  calls,         \* per request: collaborator calls, in order
  cwd,           \* options.cwd, the virtual working directory
  loadId,        \* the module id a build asks its load hooks for
  loaded,        \* what the load hooks answered for loadId
  disableLocalNpm, \* process.env.DISABLE_LOCAL_NPM
  autoInstall,   \* options.autoInstall of npmBundle
  plugins        \* the stages rollup runs for npmBundle

config == <<source, optimize>>
caches == <<memCache, diskCache, compressQueue, compressed>>
stages == <<cwd, loadId, loaded, disableLocalNpm, autoInstall, plugins>>
perReq == <<pc, url, ifNoneMatch, meta, etag, res, nextErr, thrown, warm, calls>>
vars == <<source, optimize, npmCache, memCache, diskCache, compressQueue,
          compressed, restarts, pc, url, ifNoneMatch, meta, etag, res,
          nextErr, thrown, warm, calls, cwd, loadId, loaded, disableLocalNpm,
          autoInstall, plugins>>

NoErr == "none"
Undefined == [build |-> 0]

\* JavaScript values of the two npmBundle switches, and their truthiness.
JsUndefined == [t |-> "undefined"]
JsBool(b) == [t |-> "boolean", v |-> b]
JsString(str) == [t |-> "string", v |-> str]
JsPlugin(name) == [t |-> "object", name |-> name]
Truthy(x) ==
  IF x.t = "undefined" THEN FALSE
  ELSE IF x.t = "boolean" THEN x.v
  ELSE IF x.t = "string" THEN x.v # ""
  ELSE TRUE

NotLoaded == [kind |-> "not loaded"]
NotBuilt == <<"not built">>

\* No request has been received: the state of a freshly started process.
NoRequests ==
  /\ npmCache = Undefined
  /\ memCache = <<>>
  /\ diskCache = <<>>
  /\ compressQueue = {}
  /\ compressed = {}
  /\ restarts = 0
  /\ pc = [r \in Reqs |-> "idle"]
  /\ url = [r \in Reqs |-> NoUrl]
  /\ ifNoneMatch = [r \in Reqs |-> None]
  /\ meta = [r \in Reqs |-> NoMeta]
  /\ etag = [r \in Reqs |-> None]
  /\ res = [r \in Reqs |-> NoRes]
  /\ nextErr = [r \in Reqs |-> NoErr]
  /\ thrown = [r \in Reqs |-> NoErr]
  /\ warm = [r \in Reqs |-> Undefined]
  /\ calls = [r \in Reqs |-> <<>>]

Init ==
  /\ source \in {"npm", "unpkg"}
  /\ optimize \in {"true", "false", "undefined"}
  /\ NoRequests
  /\ cwd = P_app
  /\ loadId = None
  /\ loaded = NotLoaded
  /\ disableLocalNpm = JsUndefined
  /\ autoInstall = JsUndefined
  /\ plugins = NotBuilt

\* ------------------------------------------------------------ bundle cache
\* getCachedBundle(etag, meta, cwd): memory tier first, then disk tier.
CachedBundle(k) ==
  IF k \in DOMAIN memCache THEN memCache[k]
  ELSE IF k \in DOMAIN diskCache THEN diskCache[k]
  ELSE NoBody

\* A Map.set / file write: the entry for k becomes code.
Put(cache, k, code) ==
  [x \in DOMAIN cache \cup {k} |-> IF x = k THEN code ELSE cache[x]]

\* ----------------------------------------------------------------- actions
\* Has request r made the call c?
Called(r, c) == \E i \in DOMAIN calls[r] : calls[r][i] = c

\* The position of r's first call c.
CallIndex(r, c) == CHOOSE i \in DOMAIN calls[r] :
  calls[r][i] = c /\ \A j \in DOMAIN calls[r] : calls[r][j] = c => i <= j

\* Line 71: the key of request r, from the meta object m that
\* resolvePackageVersion has filled in.
EtagOf_Unresolved(r, m) == Etag(m.specifier, meta[r].version)

EtagOf(r, m) == Etag(m.specifier, m.version)

\* Lines 72-73: ifNoneMatch === etag
NotModified_Exact(h, tag) == h = tag

NotModified_WrongHeader(h, tag) == StripEncoding(None) = tag

NotModified(h, tag) == StripEncoding(h) = tag

\* Line 103: optimize !== false
ShouldCompress_Always == TRUE

ShouldCompress == optimize # "false"

\* Lines 57-64: the handler starts, parses the URL, normalizes the specifier
\* (outside any try block) and awaits resolvePackageVersion(meta).
Receive(r) ==
  /\ pc[r] = "idle"
  /\ \A q \in Reqs : q < r => pc[q] # "idle"
  /\ \E u \in Urls, h \in IfNoneMatchValues :
       /\ url' = [url EXCEPT ![r] = u]
       /\ ifNoneMatch' = [ifNoneMatch EXCEPT ![r] = h]
       /\ IF WellFormed(u)
          THEN /\ meta' = [meta EXCEPT ![r] = NormalizeSpecifier(u)]
               /\ calls' = [calls EXCEPT ![r] = <<"resolvePackageVersion">>]
               /\ pc' = [pc EXCEPT ![r] = "resolve"]
               /\ UNCHANGED thrown
          ELSE /\ thrown' = [thrown EXCEPT ![r] = "MalformedSpecifierError"]
               /\ pc' = [pc EXCEPT ![r] = "rejected"]
               /\ UNCHANGED <<meta, calls>>
  /\ UNCHANGED <<config, stages, npmCache, caches, restarts, etag, res, nextErr, warm>>

ResolveFail_FallsThrough(r) ==
  /\ pc[r] = "resolve"
  /\ nextErr' = [nextErr EXCEPT ![r] = "VersionResolutionError"]
  /\ etag' = [etag EXCEPT ![r] = EtagOf(r, meta[r])]
  /\ res' = [res EXCEPT ![r] = [@ EXCEPT !.etag = EtagOf(r, meta[r])]]
  /\ calls' = [calls EXCEPT ![r] = @ \o <<"next", "getCachedBundle">>]
  /\ pc' = [pc EXCEPT ![r] = "lookup"]
  /\ UNCHANGED <<config, stages, npmCache, caches, restarts, url, ifNoneMatch, meta,
                 thrown, warm>>

\* Lines 65-67: resolvePackageVersion rejected.
ResolveFail(r) ==
  /\ pc[r] = "resolve"
  /\ nextErr' = [nextErr EXCEPT ![r] = "VersionResolutionError"]
  /\ calls' = [calls EXCEPT ![r] = Append(@, "next")]
  /\ pc' = [pc EXCEPT ![r] = "done"]
  /\ UNCHANGED <<config, stages, npmCache, caches, restarts, url, ifNoneMatch, meta,
                 etag, res, thrown, warm>>

\* handleAsset(meta, res, isModule), lines 28-39, up to its first await:
\* the proxy module is written at once, a raw asset awaits loadPackageFile.
HandleAssetStart(r, m, tag) ==
  IF url[r].module
  THEN /\ res' = [res EXCEPT ![r] =
                    [status |-> 200, etag |-> tag,
                     ctype |-> "application/javascript;charset=utf-8",
                     body |-> ProxyModule(m), ended |-> TRUE]]
       /\ calls' = [calls EXCEPT ![r] = @ \o <<"handleAsset", "writeHead200">>]
       /\ pc' = [pc EXCEPT ![r] = "done"]
  ELSE /\ res' = [res EXCEPT ![r] = [@ EXCEPT !.etag = tag]]
       /\ calls' = [calls EXCEPT ![r] = @ \o <<"handleAsset", "loadPackageFile">>]
       /\ pc' = [pc EXCEPT ![r] = "loadAsset"]

\* Lines 69-89: resolvePackageVersion resolved; the key is computed and
\* compared with the client's validator, then the request is dispatched.
ResolveOk(r) ==
  /\ pc[r] = "resolve"
  /\ LET m == [meta[r] EXCEPT !.version = ResolvedVersion(meta[r])]
         tag == EtagOf(r, m)
     IN /\ meta' = [meta EXCEPT ![r] = m]
        /\ etag' = [etag EXCEPT ![r] = tag]
        /\ IF NotModified(ifNoneMatch[r], tag)
           THEN /\ res' = [res EXCEPT ![r] = [@ EXCEPT !.status = 304, !.ended = TRUE]]
                /\ calls' = [calls EXCEPT ![r] = Append(@, "writeHead304")]
                /\ pc' = [pc EXCEPT ![r] = "done"]
           ELSE IF IsAssetPath(m.path)
           THEN HandleAssetStart(r, m, tag)
           ELSE /\ res' = [res EXCEPT ![r] =
                             [@ EXCEPT !.etag = tag,
                                       !.ctype = "application/javascript;charset=utf-8"]]
                /\ calls' = [calls EXCEPT ![r] = Append(@, "getCachedBundle")]
                /\ pc' = [pc EXCEPT ![r] = "lookup"]
  /\ UNCHANGED <<config, stages, npmCache, caches, restarts, url, ifNoneMatch,
                 nextErr, thrown, warm>>

\* Lines 38-44: loadPackageFile resolved; the raw file is sent.
AssetLoaded(r) ==
  /\ pc[r] = "loadAsset"
  /\ LET type == MimeType(meta[r].path)
     IN res' = [res EXCEPT ![r] =
                  [@ EXCEPT !.status = 200,
                            !.ctype = IF type = "null" THEN "text/plain" ELSE type,
                            !.body = PackageFile(meta[r]),
                            !.ended = TRUE]]
  /\ calls' = [calls EXCEPT ![r] = Append(@, "writeHead200")]
  /\ pc' = [pc EXCEPT ![r] = "done"]
  /\ UNCHANGED <<config, stages, npmCache, caches, restarts, url, ifNoneMatch, meta,
                 etag, nextErr, thrown, warm>>

\* Line 38 rejects: line 80 returns handleAsset's promise without awaiting
\* it, so the rejection leaves the try block and the handler's promise
\* rejects; the catch of lines 106-109 does not run.
AssetLoadFail(r) ==
  /\ pc[r] = "loadAsset"
  /\ thrown' = [thrown EXCEPT ![r] = "LoadError"]
  /\ pc' = [pc EXCEPT ![r] = "rejected"]
  /\ UNCHANGED <<config, stages, npmCache, caches, restarts, url, ifNoneMatch, meta,
                 etag, res, nextErr, warm, calls>>

\* Lines 106-109: the catch block.
Catch(r, e, made) ==
  /\ nextErr' = [nextErr EXCEPT ![r] = e]
  /\ calls' = [calls EXCEPT ![r] = @ \o made \o <<"next">>]
  /\ pc' = [pc EXCEPT ![r] = "done"]

\* Line 89 rejects: the disk tier could not be read.  An entry of the
\* memory tier is returned without any I/O.
LookupFail(r) ==
  /\ pc[r] = "lookup"
  /\ etag[r] \notin DOMAIN memCache
  /\ Catch(r, "CacheError", <<>>)
  /\ UNCHANGED <<config, stages, npmCache, caches, restarts, url, ifNoneMatch, meta,
                 etag, res, thrown, warm>>

\* Lines 89-90: the lookup found an entry; sendCachedBundle sends it.
LookupHit(r) ==
  /\ pc[r] = "lookup"
  /\ CachedBundle(etag[r]) # NoBody
  /\ res' = [res EXCEPT ![r] =
               [@ EXCEPT !.status = 200, !.body = CachedBundle(etag[r]),
                         !.ended = TRUE]]
  /\ memCache' = Put(memCache, etag[r], CachedBundle(etag[r]))
  /\ calls' = [calls EXCEPT ![r] = Append(@, "sendCachedBundle")]
  /\ pc' = [pc EXCEPT ![r] = "done"]
  /\ UNCHANGED <<config, stages, npmCache, diskCache, compressQueue, compressed,
                 restarts, url, ifNoneMatch, meta, etag, nextErr, thrown, warm>>

LookupMiss_Always(r) ==
  /\ pc[r] = "lookup"
  /\ source # "unpkg"
  /\ warm' = [warm EXCEPT ![r] = npmCache]
  /\ calls' = [calls EXCEPT ![r] = @ \o <<"bundleNpmModule", "rollup">>]
  /\ pc' = [pc EXCEPT ![r] = "rollup"]
  /\ UNCHANGED <<config, stages, npmCache, caches, restarts, url, ifNoneMatch, meta,
                 etag, res, thrown, nextErr>>

\* Lines 89-93 and 123-138: the lookup found nothing; bundleNpmModule is
\* called, throws for the disabled unpkg source and otherwise awaits
\* rollup.rollup, which is handed the current npmCache.
LookupMiss(r) ==
  /\ pc[r] = "lookup"
  /\ CachedBundle(etag[r]) = NoBody
  /\ IF source = "unpkg"
     THEN /\ Catch(r, "unpkg plugin is disabled", <<"bundleNpmModule">>)
          /\ UNCHANGED warm
     ELSE /\ warm' = [warm EXCEPT ![r] = npmCache]
          /\ calls' = [calls EXCEPT ![r] = @ \o <<"bundleNpmModule", "rollup">>]
          /\ pc' = [pc EXCEPT ![r] = "rollup"]
          /\ UNCHANGED nextErr
  /\ UNCHANGED <<config, stages, npmCache, caches, restarts, url, ifNoneMatch, meta,
                 etag, res, thrown>>

\* Line 138 rejects: a stage of the pipeline failed.
RollupFail(r) ==
  /\ pc[r] = "rollup"
  /\ Catch(r, "BuildError", <<>>)
  /\ UNCHANGED <<config, stages, npmCache, caches, restarts, url, ifNoneMatch, meta,
                 etag, res, thrown, warm>>

\* Lines 138-210: rollup.rollup resolved; the warm cache is replaced by
\* this bundle's cache and bundle.generate is awaited.
RollupOk(r) ==
  /\ pc[r] = "rollup"
  /\ npmCache' = [build |-> r]
  /\ calls' = [calls EXCEPT ![r] = Append(@, "generate")]
  /\ pc' = [pc EXCEPT ![r] = "generate"]
  /\ UNCHANGED <<config, stages, caches, restarts, url, ifNoneMatch, meta, etag, res,
                 nextErr, thrown, warm>>

GenerateFail_Stores(r) ==
  /\ pc[r] = "generate"
  /\ Catch(r, "BuildError", <<"setCachedBundle">>)
  /\ memCache' = Put(memCache, etag[r], [kind |-> "partial"])
  /\ diskCache' = Put(diskCache, etag[r], [kind |-> "partial"])
  /\ UNCHANGED <<config, stages, npmCache, compressQueue, compressed, restarts, url,
                 ifNoneMatch, meta, etag, res, thrown, warm>>

\* Line 210 rejects.
GenerateFail(r) ==
  /\ pc[r] = "generate"
  /\ Catch(r, "BuildError", <<>>)
  /\ UNCHANGED <<config, stages, npmCache, caches, restarts, url, ifNoneMatch, meta,
                 etag, res, thrown, warm>>

\* Lines 210-221 and 93-105: the build returned its code; the response is
\* sent, the code is stored and compression is enqueued.  setCachedBundle
\* and enqueueCompress are called inside the try block, so a throw of
\* either reaches the catch.
GenerateOk(r) ==
  /\ pc[r] = "generate"
  /\ LET code == BundleCode(meta[r])
     IN /\ res' = [res EXCEPT ![r] =
                     [@ EXCEPT !.status = 200, !.body = code, !.ended = TRUE]]
        /\ \E storeOk \in BOOLEAN, enqueueOk \in BOOLEAN :
             IF ~storeOk
             THEN /\ Catch(r, "StoreError", <<"writeHead200", "setCachedBundle">>)
                  /\ UNCHANGED <<memCache, diskCache, compressQueue>>
             ELSE /\ memCache' = Put(memCache, etag[r], code)
                  /\ diskCache' = Put(diskCache, etag[r], code)
                  /\ IF ~ShouldCompress
                     THEN /\ calls' = [calls EXCEPT ![r] =
                                         @ \o <<"writeHead200", "setCachedBundle">>]
                          /\ pc' = [pc EXCEPT ![r] = "done"]
                          /\ UNCHANGED <<compressQueue, nextErr>>
                     ELSE IF ~enqueueOk
                     THEN /\ Catch(r, "CompressError",
                                   <<"writeHead200", "setCachedBundle", "enqueueCompress">>)
                          /\ UNCHANGED compressQueue
                     ELSE /\ compressQueue' = compressQueue \cup {etag[r]}
                          /\ calls' = [calls EXCEPT ![r] =
                               @ \o <<"writeHead200", "setCachedBundle", "enqueueCompress">>]
                          /\ pc' = [pc EXCEPT ![r] = "done"]
                          /\ UNCHANGED nextErr
  /\ UNCHANGED <<config, stages, npmCache, compressed, restarts, url, ifNoneMatch,
                 meta, etag, thrown, warm>>

\* The background job enqueueCompress scheduled: it attaches compressed
\* variants to the entry; a failure is logged and leaves them absent.
CompressJob(k) ==
  /\ k \in compressQueue
  /\ compressQueue' = compressQueue \ {k}
  /\ \E ok \in BOOLEAN :
       compressed' = IF ok THEN compressed \cup {k} ELSE compressed
  /\ UNCHANGED <<config, stages, npmCache, memCache, diskCache, restarts, perReq>>

\* The server process is stopped and started again: module-level state
\* (npmCache, the memory tier, the compression queue) starts afresh, the
\* disk tier is kept, and the handlers that were suspended never resume.
Restart ==
  /\ restarts < MaxRestarts
  /\ \E r \in Reqs : pc[r] # "idle"
  /\ restarts' = restarts + 1
  /\ npmCache' = Undefined
  /\ memCache' = <<>>
  /\ compressQueue' = {}
  /\ pc' = [r \in Reqs |->
             IF pc[r] \in {"idle", "done", "rejected"} THEN pc[r] ELSE "aborted"]
  /\ UNCHANGED <<config, stages, diskCache, compressed, url, ifNoneMatch, meta, etag,
                 res, nextErr, thrown, warm, calls>>

Next ==
  \/ \E r \in Reqs : Receive(r)
  \/ \E r \in Reqs : ResolveFail(r)
  \/ \E r \in Reqs : ResolveOk(r)
  \/ \E r \in Reqs : AssetLoaded(r)
  \/ \E r \in Reqs : AssetLoadFail(r)
  \/ \E r \in Reqs : LookupFail(r)
  \/ \E r \in Reqs : LookupHit(r)
  \/ \E r \in Reqs : LookupMiss(r)
  \/ \E r \in Reqs : RollupFail(r)
  \/ \E r \in Reqs : RollupOk(r)
  \/ \E r \in Reqs : GenerateFail(r)
  \/ \E r \in Reqs : GenerateOk(r)
  \/ \E k \in compressQueue : CompressJob(k)
  \/ Restart

Spec == Init /\ [][Next]_vars

\* ------------------------------------------------------- build pipelines
\* String.prototype.startsWith
StartsWith(s, t) ==
  /\ Len(s) >= Len(t)
  /\ SubSeq(s, 1, Len(t)) = t

\* The segments of a path string between its '/' characters.
RECURSIVE Split(_)
Split(s) ==
  IF s = <<>> THEN << <<>> >>
  ELSE LET rest == Split(Tail(s))
       IN IF Head(s) = 47
          THEN << <<>> >> \o rest
          ELSE << <<Head(s)>> \o Head(rest) >> \o Tail(rest)

\* Normalization of an absolute path: empty and '.' segments are dropped,
\* '..' removes the segment before it.
RECURSIVE ResolveSegments(_, _)
ResolveSegments(acc, segs) ==
  IF segs = <<>> THEN acc
  ELSE LET h == Head(segs)
       IN ResolveSegments(
            IF h \in {<<>>, S_dot} THEN acc
            ELSE IF h = S_dotdot
                 THEN (IF acc = <<>> THEN acc ELSE SubSeq(acc, 1, Len(acc) - 1))
                 ELSE Append(acc, h),
            Tail(segs))

RECURSIVE PathString(_)
PathString(segs) ==
  IF segs = <<>> THEN <<>>
  ELSE S_slash \o Head(segs) \o PathString(Tail(segs))

\* path.join(a, b) for an absolute a and an id b without trailing slash.
PathJoin(a, b) ==
  LET segs == ResolveSegments(<<>>, Split(a \o S_slash \o b))
  IN IF segs = <<>> THEN S_slash ELSE PathString(segs)

\* id.replace(/^\0?\.\.?\/node_modules/, '/@npm')
AssetSpec(id) ==
  LET body == IF id # <<>> /\ Head(id) = 0 THEN Tail(id) ELSE id
  IN IF StartsWith(body, S_dotSlashNodeModules)
     THEN S_atNpm \o SubSeq(body, Len(S_dotSlashNodeModules) + 1, Len(body))
     ELSE IF StartsWith(body, S_dotDotSlashNodeModules)
     THEN S_atNpm \o SubSeq(body, Len(S_dotDotSlashNodeModules) + 1, Len(body))
     ELSE id

NoAnswer == [kind |-> "undefined"]

\* Lines 164-168: load of the 'no-builtins' stage.
NoBuiltinsLoad(id) ==
  IF id = Id_fs \/ id = Id_path
  THEN [kind |-> "code", default |-> <<>>]
  ELSE NoAnswer

\* Lines 187-196: load of the 'npm-asset' stage.
NpmAssetLoad(root, id) ==
  LET file == PathJoin(root, id)
  IN IF StartsWith(file, root)
     THEN [kind |-> "code", default |-> AssetSpec(id)]
     ELSE NoAnswer

\* Lines 200-203: load of the 'never-disk' stage.
NeverDiskLoad(id) == [kind |-> "error", message |-> "local access not allowed"]

\* rollup asks the stages' load hooks in order; the first answer counts.
LoadHooks(root, id) ==
  IF NoBuiltinsLoad(id) # NoAnswer THEN NoBuiltinsLoad(id)
  ELSE IF NpmAssetLoad(root, id) # NoAnswer THEN NpmAssetLoad(root, id)
  ELSE NeverDiskLoad(id)

PluginArray_LocalAlways(env, install) ==
  << JsPlugin("virtual-entry"),
     JsPlugin("browser-field"),
     JsPlugin("npm-external-deps"),
     JsPlugin("npm-local-package"),
     IF Truthy(install) THEN JsPlugin("npm-auto-install") ELSE install,
     JsPlugin("npm-load"),
     JsPlugin("commonjs"),
     JsPlugin("sub-package-legacy") >>

\* npm-bundle.js lines 27-46: the plugins array of npmBundle.
\* `!env && p` is false for a truthy env; `install && p` is install itself
\* when install is falsy.
PluginArray(env, install) ==
  << JsPlugin("virtual-entry"),
     JsPlugin("browser-field"),
     JsPlugin("npm-external-deps"),
     IF ~Truthy(env) THEN JsPlugin("npm-local-package") ELSE JsBool(FALSE),
     IF Truthy(install) THEN JsPlugin("npm-auto-install") ELSE install,
     JsPlugin("npm-load"),
     JsPlugin("commonjs"),
     JsPlugin("sub-package-legacy") >>

\* rollup.rollup drops the falsy entries of the plugins option.
StageNames(arr) ==
  LET kept == SelectSeq(arr, Truthy)
  IN [i \in DOMAIN kept |-> kept[i].name]

Cwds == {P_app, P_appSlash, P_srv}
LoadIds == {Id_nodeModules, Id_parentNodeModules, Id_sibling, Id_plain,
            Id_roundTrip, Id_etc, Id_fs}
EnvValues == {JsUndefined, JsString(""), JsString("1"), JsString("false")}
InstallValues == {JsUndefined, JsBool(TRUE), JsBool(FALSE)}

InitStages ==
  /\ source = "npm"
  /\ optimize = "undefined"
  /\ NoRequests
  /\ cwd \in Cwds
  /\ loadId \in LoadIds
  /\ loaded = NotLoaded
  /\ disableLocalNpm \in EnvValues
  /\ autoInstall \in InstallValues
  /\ plugins = NotBuilt

\* A build of bundleNpmModule loads the module loadId.
LoadModule ==
  /\ loaded = NotLoaded
  /\ loaded' = LoadHooks(cwd, loadId)
  /\ UNCHANGED <<config, npmCache, caches, restarts, perReq, cwd, loadId,
                 disableLocalNpm, autoInstall, plugins>>

\* npm-bundle.js lines 17-47: npmBundle hands its plugins to rollup.
NpmBundle ==
  /\ plugins = NotBuilt
  /\ plugins' = StageNames(PluginArray(disableLocalNpm, autoInstall))
  /\ UNCHANGED <<config, npmCache, caches, restarts, perReq, cwd, loadId,
                 loaded, disableLocalNpm, autoInstall>>

NextStages ==
  \/ LoadModule
  \/ NpmBundle

SpecStages == InitStages /\ [][NextStages]_vars

\* ------------------------------------------------------------------ claims
KeyComputed(r) == etag[r] # None

\* bundleNpmModule has been entered by r and has neither returned nor thrown.
Building(r) == pc[r] \in {"rollup", "generate"}

\* C1: for any key at most one build is in progress at a time: two requests
\* for the same specifier and version, hence the same key, are never both
\* inside bundleNpmModule.
C1_OneBuildPerKey ==
  \A r1, r2 \in Reqs :
    (r1 # r2 /\ etag[r1] = etag[r2]
       /\ meta[r1].specifier = meta[r2].specifier
       /\ meta[r1].version = meta[r2].version)
      => ~(Building(r1) /\ Building(r2))

\* C2: a request whose if-none-match equals its key is answered 304 with an
\* empty body, and makes no cache lookup, cache store, compression enqueue,
\* build or asset call.
C2_NotModifiedTouchesNothing ==
  \A r \in Reqs :
    (KeyComputed(r) /\ ifNoneMatch[r] = etag[r]) =>
      /\ res[r].status = 304
      /\ res[r].body = NoBody
      /\ res[r].ended
      /\ \A c \in {"getCachedBundle", "sendCachedBundle", "setCachedBundle",
                   "enqueueCompress", "bundleNpmModule", "rollup", "generate",
                   "handleAsset", "loadPackageFile"} : ~Called(r, c)

C2_Witness ==
  \E r \in Reqs :
    /\ KeyComputed(r) /\ ifNoneMatch[r] = etag[r]
    /\ pc[r] = "done" /\ res[r].status = 304
    /\ \E q \in Reqs : etag[q] = etag[r] /\ Called(q, "setCachedBundle")

\* The build of request r returned its code.
BuildReturned(r) == Called(r, "generate") /\ Called(r, "writeHead200")

\* C3: the warm cache npmCache only ever holds a value written by a build
\* that has completed successfully, never one of a build still running or
\* of a build that failed.
C3_WarmCacheFromCompletedBuild ==
  npmCache # Undefined => BuildReturned(npmCache.build)

\* C4: every error raised while serving a request is handed to next(e): no
\* handler ends with an error without next having been called.
C4_ErrorsReachNext ==
  \A r \in Reqs : thrown[r] # NoErr => nextErr[r] # NoErr

BuildErrors == {"BuildError", "unpkg plugin is disabled"}

\* C5: a failed build never populates the cache: the request whose build
\* threw makes no setCachedBundle or enqueueCompress call and writes no 200,
\* and every cache entry holds the code of a build that returned.
C5_FailedBuildStoresNothing ==
  /\ \A r \in Reqs :
       nextErr[r] \in BuildErrors =>
         /\ ~Called(r, "setCachedBundle")
         /\ ~Called(r, "enqueueCompress")
         /\ res[r].status # 200
         /\ ~res[r].ended
  /\ \A k \in DOMAIN memCache \cup DOMAIN diskCache :
       \E r \in Reqs :
         /\ BuildReturned(r) /\ Called(r, "setCachedBundle")
         /\ etag[r] = k
         /\ res[r].body = CachedBundle(k)

C5_Witness ==
  \E r, q \in Reqs :
    /\ pc[r] = "done" /\ nextErr[r] = "BuildError" /\ Called(r, "generate")
    /\ q # r /\ etag[q] = etag[r] /\ meta[q] = meta[r]
    /\ Called(q, "bundleNpmModule")
    /\ CachedBundle(etag[r]) = NoBody

\* C6: distinct (specifier, resolved version) pairs never get the same key.
C6_DistinctPairsDistinctKeys ==
  \A r1, r2 \in Reqs :
    (KeyComputed(r1) /\ KeyComputed(r2)
       /\ <<meta[r1].specifier, meta[r1].version>>
            # <<meta[r2].specifier, meta[r2].version>>)
      => etag[r1] # etag[r2]

\* C7: the key is a function of (name, resolved version, subpath) only: two
\* requests with the same triple have the same key, whatever their query
\* flag, headers, the configuration, the caches or the restarts in between.
C7_KeyDependsOnTripleOnly ==
  \A r1, r2 \in Reqs :
    (KeyComputed(r1) /\ KeyComputed(r2)
       /\ meta[r1].module = meta[r2].module
       /\ meta[r1].version = meta[r2].version
       /\ meta[r1].path = meta[r2].path)
      => etag[r1] = etag[r2]

C7_Witness ==
  \E r1, r2 \in Reqs :
    /\ KeyComputed(r1) /\ KeyComputed(r2)
    /\ meta[r1].module = meta[r2].module
    /\ meta[r1].version = meta[r2].version
    /\ meta[r1].path = meta[r2].path
    /\ url[r1].version # url[r2].version
    /\ ifNoneMatch[r1] # ifNoneMatch[r2]
    /\ restarts > 0
    /\ pc[r1] = "done" /\ pc[r2] = "lookup"
    /\ etag[r1] \in DOMAIN diskCache

\* C8: the request gets 304 with an empty body exactly when its
\* if-none-match value, without one trailing -gz or -br, is the key; every
\* other request (other value, absent header) never gets 304.
C8_NotModifiedIffValidatorMatches ==
  \A r \in Reqs :
    KeyComputed(r) =>
      /\ res[r].status = 304 <=>
           ifNoneMatch[r] \in {etag[r], etag[r] \o S_gz, etag[r] \o S_br}
      /\ res[r].status = 304 => res[r].body = NoBody /\ res[r].ended
      /\ res[r].status \in {0, 200, 304}

C8_Witness ==
  \E r, q \in Reqs :
    /\ ifNoneMatch[r] = etag[r] \o S_br /\ res[r].status = 304
    /\ KeyComputed(q) /\ ifNoneMatch[q] # None
    /\ ifNoneMatch[q] # etag[q] /\ res[q].status = 200

\* C9: a request whose version resolution fails calls next(e) and nothing
\* else: no key is computed, no cache, build or asset call is made, and no
\* response header or body is written.
C9_ResolutionFailureAbortsEarly ==
  \A r \in Reqs :
    nextErr[r] = "VersionResolutionError" =>
      /\ etag[r] = None
      /\ calls[r] = <<"resolvePackageVersion", "next">>
      /\ res[r] = NoRes
      /\ pc[r] = "done"

C9_Witness ==
  \E r \in Reqs : nextErr[r] = "VersionResolutionError" /\ pc[r] = "done"

\* C10: on a miss with a successful build the 200 response is written
\* first, then setCachedBundle is called, then enqueueCompress; compression
\* is enqueued only when optimize is not false, the handler never waits for
\* it, and no key is enqueued that has not been stored.
C10_SendThenStoreThenEnqueue ==
  /\ \A r \in Reqs :
       /\ Called(r, "setCachedBundle") =>
            /\ Called(r, "writeHead200")
            /\ CallIndex(r, "writeHead200") < CallIndex(r, "setCachedBundle")
            /\ res[r].status = 200 /\ res[r].ended
       /\ Called(r, "enqueueCompress") =>
            /\ Called(r, "setCachedBundle")
            /\ CallIndex(r, "setCachedBundle") < CallIndex(r, "enqueueCompress")
            /\ optimize # "false"
            /\ pc[r] = "done"
            /\ etag[r] \in DOMAIN diskCache
       /\ (BuildReturned(r) /\ nextErr[r] = NoErr) =>
            /\ Called(r, "setCachedBundle")
            /\ optimize # "false" => Called(r, "enqueueCompress")
  /\ \A k \in compressQueue : k \in DOMAIN memCache

C10_Witness ==
  \E r \in Reqs :
    /\ BuildReturned(r) /\ nextErr[r] = NoErr /\ pc[r] = "done"
    /\ Called(r, "enqueueCompress")
    /\ etag[r] \in compressQueue

C12_EntryNeverOverwritten ==
  [][\A r \in Reqs :
       (~Called(r, "setCachedBundle") /\ Called(r, "setCachedBundle")'
          /\ CachedBundle(etag[r]) # NoBody)
         => res'[r].body = CachedBundle(etag[r])]_vars

\* C13: with source = 'unpkg' the system fails fast: no request is answered
\* with 200 or 304, and none resolves a version, looks up the cache or
\* loads an asset.
C13_UnpkgFailsFast ==
  source = "unpkg" =>
    \A r \in Reqs :
      /\ res[r].status \notin {200, 304}
      /\ ~Called(r, "resolvePackageVersion")
      /\ ~Called(r, "getCachedBundle")
      /\ ~Called(r, "loadPackageFile")

\* The path root/id lies outside the directory root.
C14_Outside(root, id) ==
  LET file == ResolveSegments(<<>>, Split(root \o S_slash \o id))
      base == ResolveSegments(<<>>, Split(root))
  IN ~(Len(file) >= Len(base) /\ SubSeq(file, 1, Len(base)) = base)

\* C14: a load of a module id that path.join(cwd, id) takes outside cwd is
\* never answered with generated code: it fails with the disallowed-access
\* error, which fails the build.
C14_OutsideRootFails ==
  (loaded # NotLoaded /\ C14_Outside(cwd, loadId)) => loaded.kind = "error"

\* The subpath ends in one of the asset extensions.
C15_HasAssetExtension(path) ==
  \E ext \in {<<99, 115, 115>>, <<115, 99, 115, 115>>, <<115, 97, 115, 115>>,
              <<108, 101, 115, 115>>, <<119, 97, 115, 109>>,
              <<116, 120, 116>>, <<106, 115, 111, 110>>} :
    /\ Len(path) > Len(ext)
    /\ SubSeq(path, Len(path) - Len(ext), Len(path)) = <<46>> \o ext

\* Asset dispatch, with the proxy module's call argument being
\* "/@npm/<specifier>" followed by query.
C15_Dispatch(query) ==
  \A r \in Reqs :
    /\ (KeyComputed(r) /\ res[r].status # 304) =>
         /\ Called(r, "handleAsset") <=> C15_HasAssetExtension(meta[r].path)
         /\ Called(r, "getCachedBundle") <=> ~C15_HasAssetExtension(meta[r].path)
    /\ (Called(r, "handleAsset") /\ ~url[r].module) =>
         /\ pc[r] = "done" => res[r].status = 200
         /\ res[r].status = 200 =>
              /\ res[r].body = [kind |-> "file", specifier |-> meta[r].specifier,
                                version |-> meta[r].version]
              /\ EndsWith(meta[r].path, <<46, 99, 115, 115>>) => res[r].ctype = "text/css"
    /\ (Called(r, "handleAsset") /\ url[r].module) =>
         /\ res[r].status = 200 /\ res[r].ended
         /\ res[r].ctype = "application/javascript;charset=utf-8"
         /\ res[r].body.kind = "proxy"
         /\ res[r].body.imports = <<"/_wmr.js">>
         /\ Len(res[r].body.calls) = 1
         /\ res[r].body.calls[1].fn = "style"
         /\ res[r].body.calls[1].arg
              = <<47, 64, 110, 112, 109, 47>> \o meta[r].specifier \o query

\* C15 as stated: subpaths with an asset extension go to asset handling and
\* all others to bundling; without the module flag the response is 200 with
\* the raw file and the extension's content type; with it the response is a
\* proxy module with one import of the style loader and one call whose
\* argument is "/@npm/<specifier>".
C15_ProxyArgumentIsPath == C15_Dispatch(<<>>)

\* C15 amended: as above, but the call's argument is
\* "/@npm/<specifier>?asset".
C15_AssetDispatch == C15_Dispatch(<<63, 97, 115, 115, 101, 116>>)

C15_Witness ==
  \E r, q \in Reqs :
    /\ Called(r, "handleAsset") /\ url[r].module /\ res[r].status = 200
    /\ Called(q, "handleAsset") /\ ~url[q].module /\ res[q].status = 200
    /\ res[q].ctype = "text/css"

\* C16: a failure of background compression, a throw of enqueueCompress
\* included, never fails the request: a request that has sent its freshly
\* built 200 and reached enqueueCompress does not call next(e), and a
\* compression job never changes or removes a stored entry.
C16_CompressionNeverFailsRequest ==
  /\ \A r \in Reqs :
       (res[r].status = 200 /\ Called(r, "enqueueCompress"))
         => nextErr[r] = NoErr
  /\ \A k \in compressQueue \cup compressed :
       restarts = 0 => k \in DOMAIN memCache /\ memCache[k] = diskCache[k]

\* C18: no request gets both terminal outcomes: once a response has been
\* written and ended, next(e) is not called for that request.
C18_ResponseOrNext ==
  \A r \in Reqs : ~(res[r].ended /\ nextErr[r] # NoErr)

\* C19: the ETag is a strong validator: two 200 responses that carry the
\* same etag header have the same body and content type.
C19_StrongValidator ==
  \A r1, r2 \in Reqs :
    (res[r1].status = 200 /\ res[r2].status = 200
       /\ res[r1].etag # None /\ res[r1].etag = res[r2].etag)
      => /\ res[r1].body = res[r2].body
         /\ res[r1].ctype = res[r2].ctype

\* The stages of npmBundle that do not depend on a switch, in order.
C17_FixedStages ==
  <<"virtual-entry", "browser-field", "npm-external-deps", "npm-load",
    "commonjs", "sub-package-legacy">>

C17_Has(name) == \E i \in DOMAIN plugins : plugins[i] = name

\* The stage list of npmBundle, given which values of DISABLE_LOCAL_NPM
\* leave the local-package stage in.
C17_Stages(localKept) ==
  plugins # NotBuilt =>
    /\ C17_Has("npm-local-package") <=> disableLocalNpm \in localKept
    /\ C17_Has("npm-auto-install") <=> autoInstall = [t |-> "boolean", v |-> TRUE]
    /\ SelectSeq(plugins, LAMBDA n :
         n \notin {"npm-local-package", "npm-auto-install"}) = C17_FixedStages
    /\ plugins =
         SubSeq(C17_FixedStages, 1, 3)
           \o (IF disableLocalNpm \in localKept
               THEN <<"npm-local-package">> ELSE <<>>)
           \o (IF autoInstall = [t |-> "boolean", v |-> TRUE]
               THEN <<"npm-auto-install">> ELSE <<>>)
           \o SubSeq(C17_FixedStages, 4, 6)

\* C17 as stated: the local-package stage is present exactly when
\* DISABLE_LOCAL_NPM is unset, the auto-install stage exactly when
\* autoInstall is true, and the other six stages keep their order.
C17_LocalStageIffUnset == C17_Stages({[t |-> "undefined"]})

\* C17 amended: the local-package stage is present exactly when
\* DISABLE_LOCAL_NPM is unset or the empty string.
C17_LocalStageIffFalsy ==
  C17_Stages({[t |-> "undefined"], [t |-> "string", v |-> ""]})

C17_Witness ==
  /\ plugins # NotBuilt
  /\ disableLocalNpm = [t |-> "string", v |-> ""]
  /\ autoInstall = [t |-> "boolean", v |-> TRUE]
  /\ Len(plugins) = 8

====
